---- MODULE Spec2Model ----
(***************************************************************************)
(* The keypad firmware of src/code.py: the main loop calls scan_keys every *)
(* 10 ms; scan_keys reads the set of pressed keys, handles every newly     *)
(* pressed key, then every newly released key, and returns the set that    *)
(* becomes currently_pressed.  The state is the digit buffer, the four     *)
(* on-screen labels, the pressed-key bookkeeping, the position inside      *)
(* scan_keys and the JSON events the last step printed.                    *)
(***************************************************************************)
EXTENDS Integers, Sequences, FiniteSets, TLC

VARIABLES
    currently_pressed,   \* code.py:175, reassigned at code.py:303
    number_buffer,       \* code.py:178, list of key labels
    number_input_text,   \* number_input_label.text, code.py:248-257
    title_text,          \* title_label.text, code.py:260-269
    key_display_text,    \* text_area.text = key_display_label.text, code.py:272-296
    status_text,         \* status_label.text, code.py:284-293
    pc,                  \* "idle": between two scans; "scanning": inside scan_keys
    pressed_set,         \* local of scan_keys, code.py:90
    newly_pressed,       \* keys the loop at code.py:94 has still to visit
    newly_released,      \* keys the loop at code.py:132 has still to visit
    emitted,             \* the events printed by the latest step, in order
    typed,               \* history: number labels pressed since the buffer was last emptied
    down,                \* history: keys whose latest handling was a press
    menu_sizes,          \* menu tree: the number of entries of the menu at each depth
    nav,                 \* the running menu activations, outermost first: [scroll, cursor]
    downs,               \* history: move-downs, and nothing else, since the innermost activation began
    lk_file,             \* the allowlist file: readable or not, and its lines
    lk_pc,               \* "idle", "looked" (lookup_student returned), "decided"
    lk_student_id,       \* argument of lookup_student
    lk_id_column,        \* argument of lookup_student
    lk_result,           \* what lookup_student returned
    lk_day,              \* settings: the day letter at the decision
    lk_block,            \* settings: the block number at the decision
    lk_decision,         \* the decision shown for the submitted ID
    wire,                \* serial link: the lines printed by the device and not yet read by the host
    state,               \* the host's DisplayState, keypad_visualizer.py:68-82
    layout_changed,      \* what the latest process_event returned, keypad_visualizer.py:296
    lcd_pc,              \* "none": no RGB1602 yet; "constructed"; "in_use": a method has run since
    lcd,                 \* the attributes of the RGB1602 object, rgb1602.py:87-95, 234-235
    lcd_sent             \* the I2C writes of the latest call, in order

keypadVars == <<currently_pressed, number_buffer, number_input_text, title_text,
                key_display_text, status_text, pc, pressed_set, newly_pressed,
                newly_released, emitted, typed, down>>

menuVars == <<menu_sizes, nav, downs>>

lookupVars == <<lk_file, lk_pc, lk_student_id, lk_id_column, lk_result,
                lk_day, lk_block, lk_decision>>

hostVars == <<wire, state, layout_changed>>

lcdVars == <<lcd_pc, lcd, lcd_sent>>

vars == <<keypadVars, menuVars, lookupVars, hostVars, lcdVars>>

-----------------------------------------------------------------------------
(* Bounds of the model. *)

\* At most this many keys are held down at the same time.
MaxPressed == 1

\* The history `typed` remembers at most this many labels.
MaxTyped == 6

\* A menu has at most this many entries, and menus nest at most this deep.
MaxEntries == 4
MaxDepth == 2

\* The history `downs` counts up to this many move-downs.
MaxDowns == 6

\* The allowlist file has at most this many lines.
MaxLines == 3

\* At most this many keys go down or come up between two scans of the
\* specification that presses keys together.
MaxTogether == 2

\* The device prints while the serial link holds at most this many unread lines.
MaxWire == 5

-----------------------------------------------------------------------------
(* Program constants. *)

\* None, the entry of KEYS at the matrix positions without a key.
NoneKey == -1

\* The buffer holds up to 5 labels (code.py:105) and the number input line
\* shows 5 characters (code.py:148).
Capacity == 5
DisplayWidth == 5

KEYS ==
    << <<0, 1, 2, 3>>,
       <<4, 5, 6, 7>>,
       <<8, 9, 10, NoneKey>>,
       <<12, 13, 14, 15>>,
       <<16, NoneKey, 18, NoneKey>> >>

KEY_LABELS_gapless ==
    (0 :> "Num Lock") @@ (1 :> "*") @@ (2 :> "-") @@ (3 :> "/") @@
    (4 :> "7") @@ (5 :> "8") @@ (6 :> "9") @@ (7 :> "+") @@
    (8 :> "4") @@ (9 :> "5") @@ (10 :> "6") @@ (11 :> "1") @@
    (12 :> "2") @@ (13 :> "3") @@ (14 :> "Enter") @@ (15 :> "0") @@
    (16 :> ".")

KEY_LABELS ==
    (0 :> "Num Lock") @@ (1 :> "*") @@ (2 :> "-") @@ (3 :> "/") @@
    (4 :> "7") @@ (5 :> "8") @@ (6 :> "9") @@ (7 :> "+") @@
    (8 :> "4") @@ (9 :> "5") @@ (10 :> "6") @@
    (12 :> "1") @@ (13 :> "2") @@ (14 :> "3") @@ (15 :> "Enter") @@
    (16 :> "0") @@ (18 :> ".")

\* The identities the 5 x 4 matrix has a position for: row * 4 + col.
MatrixPositions == 0 .. 19

\* What keypad.pressed_keys can hold: an identity, or None.
KeyIdentities == MatrixPositions \cup {NoneKey}

\* The identities the scans of this model press and release: Num Lock, "*",
\* "-", "1", Enter, ".", the unpopulated position 11 and None.
ScannedKeys == {0, 1, 2, 11, 12, 15, 18, NoneKey}

-----------------------------------------------------------------------------
(* Events: send_event prints one JSON object per call. *)

send_event_key(action, key_label, key) ==
    [type |-> "key", action |-> action, key |-> key_label, key_number |-> key]

send_event_number(value) ==
    [type |-> "number", action |-> "entered", value |-> value]

send_display_event(target, text) ==
    [type |-> "display", target |-> target, text |-> text]

-----------------------------------------------------------------------------
(* Text helpers. *)

\* ''.join(number_buffer)
RECURSIVE join(_)
join(buf) == IF buf = <<>> THEN "" ELSE Head(buf) \o join(Tail(buf))

\* str.ljust(width, fill): pads on the right, never truncates.
RECURSIVE ljust(_, _, _)
ljust(s, width, fill) ==
    IF Len(s) >= width THEN s ELSE ljust(s \o fill, width, fill)

\* update_number_display: the text it puts on the number input line.
display_str_padsLeft(buf) ==
    IF Len(buf) >= DisplayWidth THEN join(buf)
    ELSE ljust("", DisplayWidth - Len(buf), "_") \o join(buf)

display_str(buf) == ljust(join(buf), DisplayWidth, "_")

-----------------------------------------------------------------------------
(* scan_keys, one key at a time. *)

\* code.py:95 and code.py:133: the key is an identity the label map knows.
IsMapped(key) == key # NoneKey /\ key \in DOMAIN KEY_LABELS

\* code.py:104: the labels that go into the buffer.
NumberInputLabels_withStar ==
    {"0", "1", "2", "3", "4", "5", "6", "7", "8", "9", ".", "*"}

NumberInputLabels ==
    {"0", "1", "2", "3", "4", "5", "6", "7", "8", "9", "."}

\* code.py:105: the buffer takes one more label.
HasRoom_offByOne(buf) == Len(buf) <= Capacity

HasRoom(buf) == Len(buf) < Capacity

\* code.py:117, code.py:124: number_buffer.clear()
clear_keepsBuffer(buf) == buf

clear(buf) == <<>>

\* The state scan_keys reads and writes while it handles one key.
Screen(buf, num, key, stat, events) ==
    [buffer |-> buf, number_input |-> num, key_display |-> key,
     status |-> stat, events |-> events]

\* code.py:141-150 followed by update_status (code.py:75-82): both write a
\* label and print a display event.
UpdateNumberThenStatus(s, buf, stat) ==
    Screen(buf, display_str(buf), s.key_display, stat,
           s.events \o << send_display_event("number_input", display_str(buf)),
                          send_display_event("status", stat) >>)

\* code.py:75-82 alone.
update_status_clearsBuffer(s, stat) ==
    [s EXCEPT !.buffer = <<>>,
              !.status = stat,
              !.events = @ \o << send_display_event("status", stat) >>]

update_status(s, stat) ==
    [s EXCEPT !.status = stat,
              !.events = @ \o << send_display_event("status", stat) >>]

\* code.py:104-108: a digit or the decimal point.
PressNumber_prepend(s, key_label) ==
    IF HasRoom(s.buffer)
    THEN UpdateNumberThenStatus(s, <<key_label>> \o s.buffer, "Typing")
    ELSE s

PressNumber(s, key_label) ==
    IF HasRoom(s.buffer)
    THEN UpdateNumberThenStatus(s, Append(s.buffer, key_label), "Typing")
    ELSE s

\* code.py:111-120: Enter.  The number event and the status are printed
\* before the buffer is cleared and the number input line redrawn.
PressEnter(s) ==
    IF s.buffer # <<>>
    THEN LET entered_value == join(s.buffer)
             stat == "Entered " \o entered_value
             buf == clear(s.buffer)
         IN  Screen(buf, display_str(buf), s.key_display, stat,
                    s.events \o << send_event_number(entered_value),
                                   send_display_event("status", stat),
                                   send_display_event("number_input", display_str(buf)) >>)
    ELSE update_status(s, "Enter (empty)")

\* code.py:123-126: "-" clears the buffer.
PressMinus_dropsLast(s) ==
    LET buf == SubSeq(s.buffer, 1, Len(s.buffer) - 1)
    IN  UpdateNumberThenStatus(s, buf, "Cleared")

PressMinus(s) ==
    LET buf == clear(s.buffer)
    IN  UpdateNumberThenStatus(s, buf, "Cleared")

\* code.py:95-128: one iteration of the loop over newly_pressed.
PressKey(key, s) ==
    IF ~IsMapped(key)
    THEN s
    ELSE LET key_label == KEY_LABELS[key]
             shown == [s EXCEPT
                         !.key_display = key_label,
                         !.events = @ \o << send_event_key("press", key_label, key),
                                            send_display_event("key_display", key_label) >>]
         IN  IF key_label \in NumberInputLabels THEN PressNumber(shown, key_label)
             ELSE IF key_label = "Enter" THEN PressEnter(shown)
             ELSE IF key_label = "-" THEN PressMinus(shown)
             ELSE update_status(shown, "Pressed " \o key_label)

\* code.py:133-136: one iteration of the loop over newly_released.
ReleaseStatus_silent(key_label, stat) == stat

ReleaseStatus(key_label, stat) == "Released " \o key_label

ReleaseKey(key, s) ==
    IF ~IsMapped(key)
    THEN s
    ELSE LET key_label == KEY_LABELS[key]
             stat == ReleaseStatus(key_label, s.status)
         IN  [s EXCEPT
                !.status = stat,
                !.events = @ \o << send_event_key("release", key_label, key),
                                   send_display_event("status", stat) >>]

\* code.py:138 and code.py:303: the set scan_keys hands back.
Returned_forgotten(pressed) == {}

Returned(pressed) == pressed

-----------------------------------------------------------------------------
(* The state machine. *)

\* The screen as scan_keys finds it, with nothing printed yet in this step.
Now == Screen(number_buffer, number_input_text, key_display_text, status_text, <<>>)

Apply(s) ==
    /\ number_buffer' = s.buffer
    /\ number_input_text' = s.number_input
    /\ key_display_text' = s.key_display
    /\ status_text' = s.status
    /\ emitted' = s.events

\* History of the number labels pressed since the buffer was last emptied.
TypedAfterPress(key) ==
    IF ~IsMapped(key) THEN typed
    ELSE LET key_label == KEY_LABELS[key]
         IN  IF key_label \in {"0", "1", "2", "3", "4", "5", "6", "7", "8", "9", "."}
             THEN IF Len(typed) < MaxTyped THEN Append(typed, key_label) ELSE typed
             ELSE IF key_label = "-" \/ (key_label = "Enter" /\ number_buffer # <<>>)
             THEN <<>>
             ELSE typed

\* keypad_visualizer.py:68-82: a DisplayState as the host constructs it.
DisplayState ==
    [display_width |-> 135, display_height |-> 240, rotation |-> 270,
     background_color |-> <<0, 0, 0>>, accent_color |-> <<0, 0, 255>>,
     text_color |-> <<255, 255, 255>>, highlight_color |-> <<0, 255, 0>>,
     number_text |-> "_____", title_text |-> "NUMPAD", key_text |-> "---",
     status_text |-> "Waiting for board...", extras |-> <<>>]

\* No host is listening and nothing is on the serial link.
HostOff ==
    /\ wire = <<>>
    /\ state = DisplayState
    /\ layout_changed = FALSE

\* No RGB1602 object has been constructed.
NoLcd ==
    [row |-> 0, col |-> 0, showfunction |-> 0, showcontrol |-> 0,
     showmode |-> 0, numlines |-> 0, currline |-> 0]

LcdOff ==
    /\ lcd_pc = "none"
    /\ lcd = NoLcd
    /\ lcd_sent = <<>>

\* No menu is part of the run.
MenuOff ==
    /\ menu_sizes = [d \in 1 .. MaxDepth |-> 1]
    /\ nav = <<>>
    /\ downs = 0

\* No allowlist lookup is part of the run.
LookupOff ==
    /\ lk_file = [readable |-> FALSE, lines |-> <<>>]
    /\ lk_pc = "idle"
    /\ lk_student_id = ""
    /\ lk_id_column = ""
    /\ lk_result = [kind |-> "None", dict |-> <<>>, tuple |-> <<>>, line |-> 0]
    /\ lk_day = "A"
    /\ lk_block = 1
    /\ lk_decision = ""

\* code.py:153-299: the state when the main loop starts.
Init ==
    /\ MenuOff
    /\ LookupOff
    /\ HostOff
    /\ LcdOff
    /\ currently_pressed = {}
    /\ number_buffer = <<>>
    /\ number_input_text = "_____"
    /\ title_text = "NUMPAD"
    /\ key_display_text = "---"
    /\ status_text = "Ready"
    /\ pc = "idle"
    /\ pressed_set = {}
    /\ newly_pressed = {}
    /\ newly_released = {}
    /\ emitted = <<>>
    /\ typed = <<>>
    /\ down = {}

\* code.py:89-93 (and the set difference of code.py:131, whose operands the
\* first loop leaves alone): read the matrix.
ReadKeys ==
    /\ pc = "idle"
    /\ \E ps \in SUBSET ScannedKeys :
         /\ Cardinality(ps) <= MaxPressed
         /\ pressed_set' = ps
         /\ newly_pressed' = ps \ currently_pressed
         /\ newly_released' = currently_pressed \ ps
    /\ pc' = "scanning"
    /\ emitted' = <<>>
    /\ UNCHANGED <<currently_pressed, number_buffer, number_input_text, title_text,
                   key_display_text, status_text, typed, down>>

\* code.py:94-128: the loop body for one newly pressed key; a set is visited
\* in an order the program does not choose.
HandlePress ==
    /\ pc = "scanning"
    /\ \E key \in newly_pressed :
         /\ Apply(PressKey(key, Now))
         /\ newly_pressed' = newly_pressed \ {key}
         /\ typed' = TypedAfterPress(key)
         /\ down' = IF IsMapped(key) THEN down \cup {key} ELSE down
    /\ UNCHANGED <<currently_pressed, title_text, pc, pressed_set, newly_released>>

\* code.py:132-136: the loop body for one newly released key, once the
\* first loop is over.
HandleRelease ==
    /\ pc = "scanning"
    /\ newly_pressed = {}
    /\ \E key \in newly_released :
         /\ Apply(ReleaseKey(key, Now))
         /\ newly_released' = newly_released \ {key}
         /\ down' = IF IsMapped(key) THEN down \ {key} ELSE down
    /\ UNCHANGED <<currently_pressed, title_text, pc, pressed_set, newly_pressed, typed>>

\* code.py:138, code.py:303-304: scan_keys returns and the loop sleeps.
Return ==
    /\ pc = "scanning"
    /\ newly_pressed = {}
    /\ newly_released = {}
    /\ currently_pressed' = Returned(pressed_set)
    /\ pc' = "idle"
    /\ emitted' = <<>>
    /\ UNCHANGED <<number_buffer, number_input_text, title_text, key_display_text,
                   status_text, pressed_set, newly_pressed, newly_released, typed, down>>

Next ==
    \/ ReadKeys /\ UNCHANGED <<menuVars, lookupVars, hostVars, lcdVars>>
    \/ HandlePress /\ UNCHANGED <<menuVars, lookupVars, hostVars, lcdVars>>
    \/ HandleRelease /\ UNCHANGED <<menuVars, lookupVars, hostVars, lcdVars>>
    \/ Return /\ UNCHANGED <<menuVars, lookupVars, hostVars, lcdVars>>

Spec == Init /\ [][Next]_vars

-----------------------------------------------------------------------------
(* The menu navigation of the firmware: a menu is activated, shows a window *)
(* of two rows with a cursor, and runs until Back, a terminal entry or an   *)
(* action that signals "done"; a submenu entry runs a nested activation.    *)
(* Every activation has a scroll and a cursor of its own.                   *)

\* The window shows two rows.
WindowRows == 2

\* A new activation starts at the top.
FreshSession == [scroll |-> 0, cursor |-> 0]

\* Move up: inside the window first, then the window itself.
MoveUpFrom(session) ==
    IF session.cursor > 0 THEN [session EXCEPT !.cursor = @ - 1]
    ELSE IF session.scroll > 0 THEN [session EXCEPT !.scroll = @ - 1]
    ELSE session

\* Move down: inside the window first, then the window itself.
MoveDownFrom_scrollsPastEnd(session, total) ==
    IF session.cursor < 1 /\ session.scroll + session.cursor + 1 < total
    THEN [session EXCEPT !.cursor = @ + 1]
    ELSE IF session.scroll + 1 < total THEN [session EXCEPT !.scroll = @ + 1]
    ELSE session

MoveDownFrom_stopsEarly(session, total) ==
    IF session.cursor < 1 /\ session.scroll + session.cursor + 1 < total
    THEN [session EXCEPT !.cursor = @ + 1]
    ELSE IF session.scroll + 3 < total THEN [session EXCEPT !.scroll = @ + 1]
    ELSE session

MoveDownFrom(session, total) ==
    IF session.cursor < 1 /\ session.scroll + session.cursor + 1 < total
    THEN [session EXCEPT !.cursor = @ + 1]
    ELSE IF session.scroll + WindowRows < total THEN [session EXCEPT !.scroll = @ + 1]
    ELSE session

\* What the entry at `index` (from 0) of a menu at `depth` is: every third
\* entry opens a submenu, as long as menus may nest deeper; the others are
\* an action and a terminal entry.
EntryKind(depth, index) ==
    IF index % 3 = 0 /\ depth < MaxDepth THEN "submenu"
    ELSE IF index % 3 = 1 THEN "action"
    ELSE "terminal"

\* The session the parent goes on with when a nested activation returns.
ResumeParent_atTop(session) == FreshSession

ResumeParent(session) == session

\* The innermost activation, the one that reads the keys and renders.
Depth == Len(nav)
Top == nav[Depth]
TopSize == menu_sizes[Depth]

\* The innermost activation ends; its parent, if any, goes on.
EndActivation ==
    /\ nav' = IF Depth > 1
              THEN [SubSeq(nav, 1, Depth - 1) EXCEPT ![Depth - 1] = ResumeParent(@)]
              ELSE <<>>
    /\ downs' = -1

\* What the keypad loop starts from, when it is not what runs.
KeypadOff ==
    /\ currently_pressed = {}
    /\ number_buffer = <<>>
    /\ number_input_text = "_____"
    /\ title_text = "NUMPAD"
    /\ key_display_text = "---"
    /\ status_text = "Ready"
    /\ pc = "idle"
    /\ pressed_set = {}
    /\ newly_pressed = {}
    /\ newly_released = {}
    /\ emitted = <<>>
    /\ typed = <<>>
    /\ down = {}

\* The menus of a run: any number of entries at each depth.
MenuInit ==
    /\ LookupOff
    /\ HostOff
    /\ LcdOff
    /\ menu_sizes \in [1 .. MaxDepth -> 1 .. MaxEntries]
    /\ nav = <<>>
    /\ downs = 0
    /\ currently_pressed = {}
    /\ number_buffer = <<>>
    /\ number_input_text = "_____"
    /\ title_text = "NUMPAD"
    /\ key_display_text = "---"
    /\ status_text = "Ready"
    /\ pc = "idle"
    /\ pressed_set = {}
    /\ newly_pressed = {}
    /\ newly_released = {}
    /\ emitted = <<>>
    /\ typed = <<>>
    /\ down = {}

\* The Menu key at ID entry activates the root menu.
OpenRootMenu ==
    /\ nav = <<>>
    /\ nav' = <<FreshSession>>
    /\ downs' = 0
    /\ UNCHANGED menu_sizes

MoveUp ==
    /\ nav # <<>>
    /\ nav' = [nav EXCEPT ![Depth] = MoveUpFrom(@)]
    /\ downs' = -1
    /\ UNCHANGED menu_sizes

MoveDown ==
    /\ nav # <<>>
    /\ nav' = [nav EXCEPT ![Depth] = MoveDownFrom(@, TopSize)]
    /\ downs' = IF downs < 0 THEN downs
                ELSE IF downs < MaxDowns THEN downs + 1 ELSE downs
    /\ UNCHANGED menu_sizes

\* Activate the entry under the cursor: a submenu runs a fresh activation,
\* an action says whether this activation is done, a terminal entry ends it.
Select ==
    /\ nav # <<>>
    /\ LET kind == EntryKind(Depth, Top.scroll + Top.cursor)
       IN  \/ /\ kind = "submenu"
              /\ nav' = Append(nav, FreshSession)
              /\ downs' = 0
           \/ /\ kind = "action"
              /\ \E done \in BOOLEAN :
                   IF done THEN EndActivation
                   ELSE nav' = nav /\ downs' = -1
           \/ /\ kind = "terminal"
              /\ EndActivation
    /\ UNCHANGED menu_sizes

\* Back ends the innermost activation.
Back ==
    /\ nav # <<>>
    /\ EndActivation
    /\ UNCHANGED menu_sizes

MenuNext ==
    \/ OpenRootMenu /\ UNCHANGED <<keypadVars, lookupVars, hostVars, lcdVars>>
    \/ MoveUp /\ UNCHANGED <<keypadVars, lookupVars, hostVars, lcdVars>>
    \/ MoveDown /\ UNCHANGED <<keypadVars, lookupVars, hostVars, lcdVars>>
    \/ Select /\ UNCHANGED <<keypadVars, lookupVars, hostVars, lcdVars>>
    \/ Back /\ UNCHANGED <<keypadVars, lookupVars, hostVars, lcdVars>>

MenuSpec == MenuInit /\ [][MenuNext]_vars

-----------------------------------------------------------------------------
(* lookup_student of src/allowlist_reader.py.  A line of the file is the    *)
(* sequence of its comma-separated parts, as line.split(",") returns them. *)

\* allowlist_reader.py:12: the default of id_column.
DEFAULT_ID_COLUMN == "STUDENT_PIN"

\* generate_allowlist.py:20: the header row the generator writes.
GENERATED_HEADER == <<"PIN", "A", "B", "log">>

\* The lines a file of this model is made of: three header rows (the second
\* with the ID column in second place), rows for the IDs 11111 (twice, with
\* different fields, once with blanks around the ID) and 22222, a row with
\* 11111 in its second column, and an empty line.
LineChoices ==
    { <<"STUDENT_PIN", "A", "B">>,
      <<"log", "STUDENT_PIN">>,
      GENERATED_HEADER,
      <<"11111", "2", "3">>,
      <<" 11111 ", "4">>,
      <<"22222", "x", "1", "late">>,
      <<"2", "11111">>,
      <<"">> }

\* The files: one that cannot be opened, and every file of up to MaxLines lines.
Files ==
    {[readable |-> FALSE, lines |-> <<>>]} \cup
    {[readable |-> TRUE, lines |-> ls] :
        ls \in UNION {[1 .. n -> LineChoices] : n \in 0 .. MaxLines}}

\* The IDs looked up, and the names given for the ID column.
StudentIds == {"11111", " 11111 ", "22222", "99999", "2", "PIN"}
IdColumns == {DEFAULT_ID_COLUMN, "PIN"}

\* str.strip, on the strings of this model: one of them has blanks around it.
strip(text) == IF text = " 11111 " THEN "11111" ELSE text

\* allowlist_reader.py:55-57
split_line(line) == [i \in 1 .. Len(line) |-> strip(line[i])]

\* allowlist_reader.py:60-64: idx counts from 1 here; a row too short for
\* it (IndexError) does not match.
row_matches(row, student_id, idx) == idx <= Len(row) /\ row[idx] = student_id

\* allowlist_reader.py:37: id_column in header
uses_header_firstColumnOnly(header, id_column) == header[1] = id_column

uses_header(header, id_column) == \E i \in 1 .. Len(header) : header[i] = id_column

\* allowlist_reader.py:39: header.index(id_column), counted from 1.
index(header, name) ==
    CHOOSE i \in 1 .. Len(header) :
        header[i] = name /\ \A j \in 1 .. i - 1 : header[j] # name

\* allowlist_reader.py:44-52: the loop, from data line k on; the number of
\* the line it returns on, 0 when it runs to the end.
RECURSIVE scan_from(_, _, _, _)
scan_from(data_lines, k, sid, id_idx) ==
    IF k > Len(data_lines) THEN 0
    ELSE IF row_matches(split_line(data_lines[k]), sid, id_idx) THEN k
    ELSE scan_from(data_lines, k + 1, sid, id_idx)

first_match_last(data_lines, sid, id_idx) ==
    LET hits == {k \in 1 .. Len(data_lines) :
                    row_matches(split_line(data_lines[k]), sid, id_idx)}
    IN  IF hits = {} THEN 0 ELSE CHOOSE k \in hits : \A h \in hits : h <= k

first_match(data_lines, sid, id_idx) == scan_from(data_lines, 1, sid, id_idx)

\* allowlist_reader.py:48-49: dict(zip(header, padded)); zip stops at the
\* shorter of the two and a later column of the same name wins.
zip_dict(header, row) ==
    LET missing == IF Len(header) > Len(row) THEN Len(header) - Len(row) ELSE 0
        padded == row \o [i \in 1 .. missing |-> ""]
        cols(name) == {i \in 1 .. Len(header) : header[i] = name}
    IN  [name \in {header[i] : i \in 1 .. Len(header)} |->
            padded[CHOOSE i \in cols(name) : \A j \in cols(name) : j <= i]]

\* The values lookup_student returns; `line` is the number of the line of the
\* file the row came from (not part of the value: 0 for None).
None == [kind |-> "None", dict |-> <<>>, tuple |-> <<>>, line |-> 0]
DictRow(header, row, line) ==
    [kind |-> "dict", dict |-> zip_dict(header, row), tuple |-> <<>>, line |-> line]
TupleRow(row, line) ==
    [kind |-> "tuple", dict |-> <<>>, tuple |-> row, line |-> line]

\* allowlist_reader.py:8-52
lookup_student(file, student_id, id_column) ==
    LET sid == strip(student_id)
        lines == file.lines
    IN  IF ~file.readable THEN None
        ELSE IF lines = <<>> THEN None
        ELSE LET header == split_line(lines[1])
                 use_header == uses_header(header, id_column)
                 id_idx == IF use_header THEN index(header, id_column) ELSE 1
                 skipped == IF use_header THEN 1 ELSE 0
                 data_lines == SubSeq(lines, skipped + 1, Len(lines))
                 k == first_match(data_lines, sid, id_idx)
             IN  IF k = 0 THEN None
                 ELSE IF use_header
                 THEN DictRow(header, split_line(data_lines[k]), k + skipped)
                 ELSE TupleRow(split_line(data_lines[k]), k + skipped)

-----------------------------------------------------------------------------
(* The decision on a submitted ID: the max-block field of the current day  *)
(* letter against the current block number.                                *)

DayLetters == {"A", "B"}
Blocks == 1 .. 4

\* int(text): the texts that parse, and their values.
parses_as_int(text) == text \in {"1", "2", "3", "4"}
int_of(text) ==
    CASE text = "1" -> 1 [] text = "2" -> 2 [] text = "3" -> 3 [] text = "4" -> 4

\* The max-block field of a row for a day letter: by name in a row with a
\* header, by position (ID, A, B, log) in a row without; "" when it is missing.
max_block_field(result, day) ==
    IF result.kind = "dict"
    THEN IF day \in DOMAIN result.dict THEN result.dict[day] ELSE ""
    ELSE LET col == IF day = "A" THEN 2 ELSE 3
         IN  IF col <= Len(result.tuple) THEN result.tuple[col] ELSE ""

permitted_strictlyBelow(field, block) ==
    parses_as_int(field) /\ int_of(field) < block

permitted(field, block) ==
    parses_as_int(field) /\ int_of(field) <= block

decide(result, day, block) ==
    IF result.kind = "None" THEN "NotFound"
    ELSE IF permitted(max_block_field(result, day), block) THEN "Allowed"
    ELSE "Denied"

-----------------------------------------------------------------------------
(* A submitted ID is looked up and decided on, and ID entry goes on. *)

LookupInit ==
    /\ KeypadOff
    /\ MenuOff
    /\ HostOff
    /\ LcdOff
    /\ lk_file \in Files
    /\ lk_pc = "idle"
    /\ lk_student_id = ""
    /\ lk_id_column = ""
    /\ lk_result = None
    /\ lk_day = "A"
    /\ lk_block = 1
    /\ lk_decision = ""

\* The call of lookup_student and its return.
LookupCall ==
    /\ lk_pc = "idle"
    /\ \E student_id \in StudentIds, id_column \in IdColumns :
         /\ lk_student_id' = student_id
         /\ lk_id_column' = id_column
         /\ lk_result' = lookup_student(lk_file, student_id, id_column)
    /\ lk_pc' = "looked"
    /\ lk_decision' = ""
    /\ UNCHANGED <<lk_file, lk_day, lk_block>>

\* The decision, under the settings of the moment.
Decide ==
    /\ lk_pc = "looked"
    /\ \E day \in DayLetters, block \in Blocks :
         /\ lk_day' = day
         /\ lk_block' = block
         /\ lk_decision' = decide(lk_result, day, block)
    /\ lk_pc' = "decided"
    /\ UNCHANGED <<lk_file, lk_student_id, lk_id_column, lk_result>>

\* The decision has been shown; the call's values are gone and the next ID
\* can be entered.
Resume ==
    /\ lk_pc = "decided"
    /\ lk_pc' = "idle"
    /\ lk_student_id' = ""
    /\ lk_id_column' = ""
    /\ lk_result' = None
    /\ lk_day' = "A"
    /\ lk_block' = 1
    /\ lk_decision' = ""
    /\ UNCHANGED lk_file

LookupNext ==
    \/ LookupCall /\ UNCHANGED <<keypadVars, menuVars, hostVars, lcdVars>>
    \/ Decide /\ UNCHANGED <<keypadVars, menuVars, hostVars, lcdVars>>
    \/ Resume /\ UNCHANGED <<keypadVars, menuVars, hostVars, lcdVars>>

LookupSpec == LookupInit /\ [][LookupNext]_vars

-----------------------------------------------------------------------------
(* Scans that find several keys changed at once. *)

\* The keys pressed together: "-", "1" and Enter.
ChordKeys == {2, 12, 15}

ChordInit ==
    /\ KeypadOff
    /\ MenuOff
    /\ LookupOff
    /\ HostOff
    /\ LcdOff

\* code.py:89-93, 131: read the matrix; any number of keys up to MaxTogether
\* may have gone down or come up since the last scan.
ReadChord ==
    /\ pc = "idle"
    /\ \E ps \in SUBSET ChordKeys :
         /\ Cardinality(ps \ currently_pressed) <= MaxTogether
         /\ Cardinality(currently_pressed \ ps) <= MaxTogether
         /\ pressed_set' = ps
         /\ newly_pressed' = ps \ currently_pressed
         /\ newly_released' = currently_pressed \ ps
    /\ pc' = "scanning"
    /\ emitted' = <<>>
    /\ UNCHANGED <<currently_pressed, number_buffer, number_input_text, title_text,
                   key_display_text, status_text, typed, down>>

ChordNext ==
    \/ ReadChord /\ UNCHANGED <<menuVars, lookupVars, hostVars, lcdVars>>
    \/ HandlePress /\ UNCHANGED <<menuVars, lookupVars, hostVars, lcdVars>>
    \/ HandleRelease /\ UNCHANGED <<menuVars, lookupVars, hostVars, lcdVars>>
    \/ Return /\ UNCHANGED <<menuVars, lookupVars, hostVars, lcdVars>>

ChordSpec == ChordInit /\ [][ChordNext]_vars

-----------------------------------------------------------------------------
(* The serial link and the host visualizer, src/keypad_visualizer.py. *)

\* code.py:65, keypad_visualizer.py:140-148 and 157: print(json.dumps(payload))
\* writes one line of JSON text; the host reads the line, strips it and
\* parses it back.  A line is JSON text of an object, or it is not.
dumps(payload) == [json |-> TRUE, object |-> payload]
is_json(line) == line.json
loads(line) == line.object

\* dict.get and the "in" of a dict.
has(event, name) == name \in DOMAIN event
get(event, name, default) == IF has(event, name) THEN event[name] ELSE default

\* code.py:198-209
send_event_layout ==
    [type |-> "layout", width |-> 135, height |-> 240, rotation |-> 270,
     colors |-> [background |-> 0, accent |-> 255, text |-> 16777215,
                 highlight |-> 65280]]

\* code.py:298-299
send_event_log(message) == [type |-> "log", message |-> message]

\* code.py:198-299: what the device has printed when its main loop starts.
InitLines ==
    << dumps(send_event_layout),
       dumps(send_display_event("number_input", "_____")),
       dumps(send_display_event("title", "NUMPAD")),
       dumps(send_display_event("key_display", "---")),
       dumps(send_display_event("status", "Ready")),
       dumps(send_event_log("Numpad initialized! Press keys to test...")),
       dumps(send_event_log("----------------------------------------")) >>

\* The keys pressed while the host is watched: "-", "1" and Enter.
MirrorKeys == {2, 12, 15}

\* keypad_visualizer.py:63-65
hex_to_rgb(value) ==
    <<(value \div 65536) % 256, (value \div 256) % 256, value % 256>>

\* self.extras[key] = text
put(extras, key, text) ==
    [k \in DOMAIN extras \cup {key} |-> IF k = key THEN text ELSE extras[k]]

\* keypad_visualizer.py:84-110, on the fields of the layout event; a field
\* the event lacks reaches apply_layout as None.
apply_layout(st, event) ==
    LET width == get(event, "width", 0)
        height == get(event, "height", 0)
        colors == get(event, "colors", <<>>)
        color(field, key) ==
            IF key \in DOMAIN colors THEN hex_to_rgb(colors[key]) ELSE st[field]
    IN  [st EXCEPT
            !.display_width = IF width # 0 THEN width ELSE @,
            !.display_height = IF height # 0 THEN height ELSE @,
            !.rotation = get(event, "rotation", @),
            !.background_color = color("background_color", "background"),
            !.accent_color = color("accent_color", "accent"),
            !.text_color = color("text_color", "text"),
            !.highlight_color = color("highlight_color", "highlight")]

\* keypad_visualizer.py:92-98, 110: the value apply_layout returns.
apply_layout_returns_onAnyLayout(st, event) == TRUE

apply_layout_returns(st, event) ==
    LET width == get(event, "width", 0)
        height == get(event, "height", 0)
    IN  \/ width # 0 /\ width # st.display_width
        \/ height # 0 /\ height # st.display_height

\* keypad_visualizer.py:112-124
apply_display_statusAsExtra(st, target, text) ==
    IF target = "number_input" THEN [st EXCEPT !.number_text = text]
    ELSE IF target = "title" THEN [st EXCEPT !.title_text = text]
    ELSE IF target = "key_display" THEN [st EXCEPT !.key_text = text]
    ELSE [st EXCEPT !.extras = put(@, target, text)]

apply_display(st, target, text) ==
    IF target = "number_input" THEN [st EXCEPT !.number_text = text]
    ELSE IF target = "title" THEN [st EXCEPT !.title_text = text]
    ELSE IF target = "key_display" THEN [st EXCEPT !.key_text = text]
    ELSE IF target = "status" THEN [st EXCEPT !.status_text = text]
    ELSE [st EXCEPT !.extras = put(@, target, text)]

\* keypad_visualizer.py:158-161: the line is not JSON.
bad_data_startsOver(st) == [DisplayState EXCEPT !.status_text = "Host: bad data"]

bad_data(st) == [st EXCEPT !.status_text = "Host: bad data"]

\* keypad_visualizer.py:151-191; the messages the host prints are not part
\* of its DisplayState.
process_event(line, st) ==
    IF ~is_json(line) THEN bad_data(st)
    ELSE
    LET event == loads(line)
        event_type == get(event, "type", "")
    IN  IF event_type = "display"
        THEN LET target == get(event, "target", "")
                 text == get(event, "text", "")
             IN  IF target # "" THEN apply_display(st, target, text) ELSE st
        ELSE IF event_type = "layout" THEN apply_layout(st, event)
        ELSE IF event_type = "log" THEN st
        ELSE IF event_type = "key"
        THEN [st EXCEPT !.extras =
                put(@, "last_key",
                    get(event, "key", "None") \o ":" \o get(event, "action", "None"))]
        ELSE IF event_type = "number"
        THEN LET value == get(event, "value", "")
                 action == get(event, "action", "")
             IN  IF action # "" /\ value # ""
                 THEN [st EXCEPT !.extras =
                          put(@, "last_number", action \o ":" \o value)]
                 ELSE st
        ELSE [st EXCEPT !.extras = put(@, "last_event", ToString(event))]

\* keypad_visualizer.py:151-191: the value process_event returns.
process_event_returns(line, st) ==
    /\ is_json(line)
    /\ get(loads(line), "type", "") = "layout"
    /\ apply_layout_returns(st, loads(line))

\* The device is running and the host has just been started.
MirrorInit ==
    /\ KeypadOff
    /\ MenuOff
    /\ LookupOff
    /\ wire = InitLines
    /\ state = DisplayState
    /\ layout_changed = FALSE
    /\ LcdOff

\* code.py:65: the events of the step go out on the serial link, in order,
\* when the link has room for them.
Printed ==
    /\ wire' = wire \o [i \in 1 .. Len(emitted') |-> dumps(emitted'[i])]
    /\ Len(wire') <= MaxWire
    /\ UNCHANGED <<state, layout_changed>>

\* keypad_visualizer.py:294-298: the host's loop reads one line and processes it.
HostRead ==
    /\ wire # <<>>
    /\ state' = process_event(Head(wire), state)
    /\ layout_changed' = process_event_returns(Head(wire), state)
    /\ wire' = Tail(wire)
    /\ UNCHANGED keypadVars

MirrorNext ==
    \/ ReadKeys /\ pressed_set' \subseteq MirrorKeys
                /\ UNCHANGED <<menuVars, lookupVars, hostVars, lcdVars>>
    \/ HandlePress /\ Printed /\ UNCHANGED <<menuVars, lookupVars, lcdVars>>
    \/ HandleRelease /\ Printed /\ UNCHANGED <<menuVars, lookupVars, lcdVars>>
    \/ Return /\ UNCHANGED <<menuVars, lookupVars, hostVars, lcdVars>>
    \/ HostRead /\ UNCHANGED <<menuVars, lookupVars, lcdVars>>

MirrorSpec == MirrorInit /\ [][MirrorNext]_vars

-----------------------------------------------------------------------------
(* process_event on the lines a serial link can deliver. *)

\* Lines that are not JSON text, and JSON objects of every type
\* process_event tells apart, with and without the fields it reads.
HostLines ==
    { [json |-> FALSE, object |-> "Traceback (most recent call last):"],
      dumps(send_display_event("number_input", "1____")),
      dumps(send_display_event("status", "Typing")),
      dumps(send_display_event("help", "x")),
      dumps([type |-> "display", text |-> "y"]),
      dumps(send_event_layout),
      dumps([type |-> "layout", width |-> 240, height |-> 135, rotation |-> 0,
             colors |-> [background |-> 255]]),
      dumps([type |-> "layout", width |-> 0, height |-> 240]),
      dumps([type |-> "layout", rotation |-> 90]),
      dumps(send_event_log("hello")),
      dumps(send_event_key("press", "1", 12)),
      dumps(send_event_number("1")),
      dumps([type |-> "number", action |-> "entered"]),
      dumps([type |-> "ping"]) }

\* The host has just been started and nothing has arrived.
HostInit ==
    /\ KeypadOff
    /\ MenuOff
    /\ LookupOff
    /\ HostOff
    /\ LcdOff

\* keypad_visualizer.py:140-148: a line arrives on the serial link.
Receive ==
    /\ wire = <<>>
    /\ \E line \in HostLines : wire' = <<line>>
    /\ UNCHANGED <<state, layout_changed, keypadVars>>

HostNext ==
    \/ Receive /\ UNCHANGED <<menuVars, lookupVars, lcdVars>>
    \/ HostRead /\ UNCHANGED <<menuVars, lookupVars, lcdVars>>

HostSpec == HostInit /\ [][HostNext]_vars

-----------------------------------------------------------------------------
(* The LCD driver, src/rgb1602.py. *)

REG_RED == 4
REG_GREEN == 3
REG_BLUE == 2
REG_MODE1 == 0
REG_MODE2 == 1
REG_OUTPUT == 8
LCD_CLEARDISPLAY == 1
LCD_RETURNHOME == 2
LCD_ENTRYMODESET == 4
LCD_DISPLAYCONTROL == 8
LCD_FUNCTIONSET == 32
LCD_ENTRYLEFT == 2
LCD_ENTRYSHIFTDECREMENT == 0
LCD_DISPLAYON == 4
LCD_CURSORON == 2
LCD_CURSOROFF == 0
LCD_BLINKON == 1
LCD_BLINKOFF == 0
LCD_4BITMODE == 0
LCD_2LINE == 8
LCD_1LINE == 0
LCD_5x8DOTS == 0

\* The displays constructed: columns and rows.
LcdCols == {16, 20}
LcdRows == {1, 2, 4}

\* The operators | and & ~ of Python, on bytes.
bit(x, i) == (x \div (2 ^ i)) % 2

RECURSIVE bits_or(_, _, _)
bits_or(a, b, i) ==
    IF i > 7 THEN 0
    ELSE (IF bit(a, i) = 1 \/ bit(b, i) = 1 THEN 2 ^ i ELSE 0) + bits_or(a, b, i + 1)

RECURSIVE bits_and_not(_, _, _)
bits_and_not(a, b, i) ==
    IF i > 7 THEN 0
    ELSE (IF bit(a, i) = 1 /\ bit(b, i) = 0 THEN 2 ^ i ELSE 0)
         + bits_and_not(a, b, i + 1)

or(a, b) == bits_or(a, b, 0)
and_not(a, b) == bits_and_not(a, b, 0)

\* A call in progress: the object and the I2C writes made so far.
Call(self, sent) == [self |-> self, sent |-> sent]

\* rgb1602.py:99-104: command(cmd) writes 0x80 and the low byte of cmd.
command(c, cmd) == Call(c.self, Append(c.sent, <<"lcd", 128, cmd % 256>>))

\* rgb1602.py:109-111
set_reg(c, reg, data) == Call(c.self, Append(c.sent, <<"rgb", reg % 256, data % 256>>))

\* rgb1602.py:113-118
setRGB(c, r, g, b) ==
    set_reg(set_reg(set_reg(c, REG_RED, r), REG_GREEN, g), REG_BLUE, b)

\* rgb1602.py:254-257
setColorWhite(c) == setRGB(c, 255, 255, 255)

\* rgb1602.py:143-147
home(c) == command(c, LCD_RETURNHOME)

\* rgb1602.py:136-141
clear_display(c) == home(command(c, LCD_CLEARDISPLAY))

\* rgb1602.py:188-222: the six switches of the display control register.
show_control(c, showcontrol) ==
    command(Call([c.self EXCEPT !.showcontrol = showcontrol], c.sent),
            or(LCD_DISPLAYCONTROL, showcontrol))

display(c) == show_control(c, or(c.self.showcontrol, LCD_DISPLAYON))
no_display(c) == show_control(c, and_not(c.self.showcontrol, LCD_DISPLAYON))
show_cursor(c) == show_control(c, or(c.self.showcontrol, LCD_CURSORON))
hide_cursor(c) == show_control(c, and_not(c.self.showcontrol, LCD_CURSORON))
blink_on(c) == show_control(c, or(c.self.showcontrol, LCD_BLINKON))
blink_off(c) == show_control(c, and_not(c.self.showcontrol, LCD_BLINKON))

\* rgb1602.py:224-252
begin(c, cols, lines) ==
    LET showfunction == IF lines > 1 THEN or(c.self.showfunction, LCD_2LINE)
                        ELSE c.self.showfunction
        started == Call([c.self EXCEPT !.showfunction = showfunction,
                                       !.numlines = lines,
                                       !.currline = 0], c.sent)
        function_set == or(LCD_FUNCTIONSET, showfunction)
        set4 == command(command(command(command(started, function_set),
                                        function_set), function_set), function_set)
        shown == display(set4)
        cleared == clear_display(command(shown, or(LCD_ENTRYMODESET, shown.self.showmode)))
    IN  setColorWhite(set_reg(set_reg(set_reg(cleared, REG_MODE1, 0),
                                      REG_OUTPUT, 255), REG_MODE2, 32))

\* rgb1602.py:86-97: RGB1602(col, row).
init(col, row) ==
    LET self == [row |-> row, col |-> col,
                 showfunction |-> or(or(LCD_4BITMODE, LCD_1LINE), LCD_5x8DOTS),
                 showcontrol |-> or(or(LCD_DISPLAYON, LCD_CURSOROFF), LCD_BLINKOFF),
                 showmode |-> or(LCD_ENTRYLEFT, LCD_ENTRYSHIFTDECREMENT),
                 numlines |-> 0, currline |-> 0]
    IN  begin(Call(self, <<>>), self.row, self.col)

\* The object and the writes of a finished call.
Finish(c) ==
    /\ lcd' = c.self
    /\ lcd_sent' = c.sent

NewCall == Call(lcd, <<>>)

LcdInit ==
    /\ KeypadOff
    /\ MenuOff
    /\ LookupOff
    /\ HostOff
    /\ LcdOff

Construct ==
    /\ lcd_pc = "none"
    /\ \E col \in LcdCols, row \in LcdRows : Finish(init(col, row))
    /\ lcd_pc' = "constructed"

\* begin is called again after the LCD was power-cycled.
Begin ==
    /\ lcd_pc # "none"
    /\ \E cols \in LcdCols, lines \in LcdRows : Finish(begin(NewCall, cols, lines))
    /\ lcd_pc' = "in_use"

Display == lcd_pc # "none" /\ Finish(display(NewCall)) /\ lcd_pc' = "in_use"
NoDisplay == lcd_pc # "none" /\ Finish(no_display(NewCall)) /\ lcd_pc' = "in_use"
ShowCursor == lcd_pc # "none" /\ Finish(show_cursor(NewCall)) /\ lcd_pc' = "in_use"
HideCursor == lcd_pc # "none" /\ Finish(hide_cursor(NewCall)) /\ lcd_pc' = "in_use"
BlinkOn == lcd_pc # "none" /\ Finish(blink_on(NewCall)) /\ lcd_pc' = "in_use"
BlinkOff == lcd_pc # "none" /\ Finish(blink_off(NewCall)) /\ lcd_pc' = "in_use"
Clear == lcd_pc # "none" /\ Finish(clear_display(NewCall)) /\ lcd_pc' = "in_use"

LcdNext ==
    \/ Construct /\ UNCHANGED <<keypadVars, menuVars, lookupVars, hostVars>>
    \/ Begin /\ UNCHANGED <<keypadVars, menuVars, lookupVars, hostVars>>
    \/ Display /\ UNCHANGED <<keypadVars, menuVars, lookupVars, hostVars>>
    \/ NoDisplay /\ UNCHANGED <<keypadVars, menuVars, lookupVars, hostVars>>
    \/ ShowCursor /\ UNCHANGED <<keypadVars, menuVars, lookupVars, hostVars>>
    \/ HideCursor /\ UNCHANGED <<keypadVars, menuVars, lookupVars, hostVars>>
    \/ BlinkOn /\ UNCHANGED <<keypadVars, menuVars, lookupVars, hostVars>>
    \/ BlinkOff /\ UNCHANGED <<keypadVars, menuVars, lookupVars, hostVars>>
    \/ Clear /\ UNCHANGED <<keypadVars, menuVars, lookupVars, hostVars>>

LcdSpec == LcdInit /\ [][LcdNext]_vars

-----------------------------------------------------------------------------
(* Vocabulary of the properties. *)

\* The key whose press this step handles (the loop body of code.py:94):
\* a set with that key, empty when the step is something else.
PressHandled == newly_pressed \ newly_pressed'

\* The key whose release this step handles (the loop body of code.py:132).
ReleaseHandled == newly_released \ newly_released'

\* The label of a key of the label map, and no label for any other key.
LabelOf(key) == IF key \in DOMAIN KEY_LABELS THEN KEY_LABELS[key] ELSE ""

\* This step handles the press of the key labelled `key_label`.
LabelPressed(key_label) == \E key \in PressHandled : LabelOf(key) = key_label

\* The identities without an entry in the label map.
UnmappedIdentities == {11, 17, 19, NoneKey}

DigitLabels == {"0", "1", "2", "3", "4", "5", "6", "7", "8", "9"}

Min(a, b) == IF a < b THEN a ELSE b

\* The digit and decimal point labels the scanned keys carry, and the
\* strings of 1 to 5 of them.
ScannedNumberLabels ==
    {KEY_LABELS[key] : key \in ScannedKeys \cap DOMAIN KEY_LABELS}
        \cap (DigitLabels \cup {"."})

DigitAndPointStrings ==
    {join(b) : b \in UNION {[1 .. n -> ScannedNumberLabels] : n \in 1 .. 5}}

\* The values of the "number entered" events among `events`.
EnteredValues(events) ==
    {events[i].value : i \in {j \in 1 .. Len(events) : events[j].type = "number"}}

\* The targets of the display events among `events`.
DisplayTargets(events) ==
    {events[i].target : i \in {j \in 1 .. Len(events) : events[j].type = "display"}}

-----------------------------------------------------------------------------
(* C1: in every reachable state the digit buffer holds at most 5 symbols. *)
C1_BufferAtMostFive == Len(number_buffer) <= 5

\* A number key was pressed on a full buffer, which stayed at 5 symbols.
C1_Witness ==
    /\ Len(number_buffer) = 5
    /\ Len(typed) = 6
    /\ pc = "scanning"

(* C2, as claimed: pressing Enter produces a "number entered" value if and *)
(* only if the buffer holds exactly 5 symbols, and with 0 to 4 symbols it  *)
(* leaves the buffer as it was.                                            *)
C2_EnterSubmitsOnlyFullBuffer ==
    [][LabelPressed("Enter") =>
         /\ (EnteredValues(emitted') # {}) <=> (Len(number_buffer) = 5)
         /\ Len(number_buffer) < 5 => number_buffer' = number_buffer]_vars

(* C3, as claimed: pressing Num Lock on a buffer of length L > 0 removes   *)
(* exactly the last symbol and redraws the number input line; on an empty  *)
(* buffer the length stays 0.                                              *)
C3_NumLockIsBackspace ==
    [][LabelPressed("Num Lock") =>
         IF number_buffer # <<>>
         THEN /\ number_buffer' = SubSeq(number_buffer, 1, Len(number_buffer) - 1)
              /\ number_input_text' = display_str(number_buffer')
              /\ "number_input" \in DisplayTargets(emitted')
         ELSE number_buffer' = <<>>]_vars

(* C4: the buffer holds the first min(N, 5) of the N number labels pressed *)
(* since it was last empty, in order; a number key pressed on a full       *)
(* buffer changes neither the buffer nor the number input line nor the     *)
(* status, and prints no number event and no number-input or status update.*)
C4_TypedPrefix ==
    number_buffer = SubSeq(typed, 1, Min(Len(typed), 5))

C4_AppendUpToFive ==
    /\ C4_TypedPrefix
    /\ [][/\ C4_TypedPrefix'
          /\ \A key \in PressHandled :
               LabelOf(key) \in DigitLabels \cup {"."} /\ Len(number_buffer) = 5 =>
                 /\ number_buffer' = number_buffer
                 /\ number_input_text' = number_input_text
                 /\ status_text' = status_text
                 /\ EnteredValues(emitted') = {}
                 /\ DisplayTargets(emitted') \subseteq {"key_display"}]_vars

\* Two different labels were typed, and a sixth press met the full buffer.
C4_Witness ==
    /\ number_buffer = <<"1", ".", "1", "1", ".">>
    /\ typed = <<"1", ".", "1", "1", ".", "1">>
    /\ emitted = << send_event_key("press", "1", 12),
                    send_display_event("key_display", "1") >>

(* C5: the step that handles Enter on a buffer it submits leaves the       *)
(* buffer empty and the number input line at "_____", and the value it     *)
(* submits is the buffer as it was when Enter was pressed.                 *)
C5_SubmitThenReset ==
    [][LabelPressed("Enter") /\ EnteredValues(emitted') # {} =>
         /\ number_buffer' = <<>>
         /\ number_input_text' = "_____"
         /\ EnteredValues(emitted') = {join(number_buffer)}]_vars

\* A five-symbol buffer has just been submitted.
C5_Witness ==
    /\ EnteredValues(emitted) = {"1.1.1"}
    /\ number_buffer = <<>>
    /\ number_input_text = "_____"

(* C6: a mapped key is press-handled only when its latest handling was not *)
(* a press, release-handled only when its latest handling was a press, a   *)
(* key still held when the next scan reads the matrix is not handled       *)
(* again, and when a scan returns every mapped key it saw pressed has      *)
(* been press-handled.                                                     *)
C6_PressOncePerHold ==
    [][/\ \A key \in PressHandled \cap DOMAIN KEY_LABELS : key \notin down
       /\ \A key \in ReleaseHandled \cap DOMAIN KEY_LABELS : key \in down
       /\ pc = "idle" => newly_pressed' \cap down = {}
       /\ pc' = "idle" => down' = currently_pressed' \cap DOMAIN KEY_LABELS]_vars

\* A scan found the key it handled in the scan before still held.
C6_Witness ==
    /\ pc = "scanning"
    /\ 12 \in currently_pressed
    /\ 12 \in pressed_set
    /\ 12 \in down
    /\ number_buffer = <<"1">>

(* C7, as claimed: handling a release changes neither the buffer nor the   *)
(* number input, key display and status texts.                             *)
C7_ReleaseChangesNothing ==
    [][\A key \in ReleaseHandled :
         /\ number_buffer' = number_buffer
         /\ number_input_text' = number_input_text
         /\ key_display_text' = key_display_text
         /\ status_text' = status_text]_vars

(* C7, amended: handling the release of a mapped key changes neither the   *)
(* buffer nor the number input and key display texts; it sets the status   *)
(* to "Released <label>" and prints the key release and that status.       *)
C7_ReleaseOnlySetsStatus ==
    [][\A key \in ReleaseHandled \cap DOMAIN KEY_LABELS :
         /\ number_buffer' = number_buffer
         /\ number_input_text' = number_input_text
         /\ key_display_text' = key_display_text
         /\ status_text' = "Released " \o KEY_LABELS[key]
         /\ emitted' = << send_event_key("release", KEY_LABELS[key], key),
                          send_display_event("status", status_text') >>]_vars

\* The "1" key was released while the buffer held what it typed.
C7_Witness ==
    /\ status_text = "Released 1"
    /\ number_buffer = <<"1">>
    /\ number_input_text = "1____"
    /\ 12 \notin down

(* C8: the press and the release of an identity without an entry in the    *)
(* label map change neither the buffer nor any text and print no event.    *)
C8_UnmappedIgnored ==
    [][\A key \in (PressHandled \cup ReleaseHandled) \cap UnmappedIdentities :
         /\ number_buffer' = number_buffer
         /\ number_input_text' = number_input_text
         /\ key_display_text' = key_display_text
         /\ status_text' = status_text
         /\ emitted' = <<>>]_vars

\* Position 11 was seen pressed and its press has been handled.
C8_Witness ==
    /\ pc = "scanning"
    /\ 11 \in pressed_set
    /\ 11 \notin currently_pressed
    /\ 11 \notin newly_pressed
    /\ number_buffer # <<>>

(* C9, as claimed: the buffer holds digit characters "0".."9" only.        *)
C9_DigitsOnly ==
    \A i \in 1 .. Len(number_buffer) : number_buffer[i] \in DigitLabels

(* C9, amended: the buffer holds digit characters and decimal points only, *)
(* and a submitted value is the concatenation of such a buffer.            *)
C9_DigitsAndPointsOnly ==
    /\ \A i \in 1 .. Len(number_buffer) : number_buffer[i] \in DigitLabels \cup {"."}
    /\ EnteredValues(emitted) \subseteq DigitAndPointStrings

\* A buffer with a digit and a decimal point.
C9_Witness ==
    /\ number_buffer = <<"1", ".">>
    /\ status_text = "Typing"

(* C10, as claimed: once the press of "*" has been handled the buffer is   *)
(* empty and the number input line shows the idle placeholder.             *)
C10_MenuAbandonsEntry ==
    [][LabelPressed("*") =>
         /\ number_buffer' = <<>>
         /\ number_input_text' = "_____"]_vars

-----------------------------------------------------------------------------
(* C11: in every activation of a menu with N >= 1 entries, whatever moves  *)
(* came before, scroll >= 0, cursor is 0 or 1 and scroll + cursor is the   *)
(* index of an entry.                                                      *)
C11_CursorOnAnEntry ==
    \A d \in 1 .. Len(nav) :
        /\ nav[d].scroll >= 0
        /\ nav[d].cursor \in {0, 1}
        /\ nav[d].scroll + nav[d].cursor >= 0
        /\ nav[d].scroll + nav[d].cursor < menu_sizes[d]

\* The window was scrolled to the last entry of a menu of four, and another
\* move-down was made there.
C11_Witness ==
    /\ Len(nav) = 1
    /\ menu_sizes[1] = 4
    /\ nav[1] = [scroll |-> 2, cursor |-> 1]
    /\ downs = 4

(* C12: in a menu with N >= 3 entries, N - 1 move-downs from the top reach *)
(* scroll = N - 2, cursor = 1 (one entry further with each of them), and   *)
(* every move-down after that leaves scroll and cursor there.              *)
C12_MoveDownReachesBottom ==
    (nav # <<>> /\ downs >= 0 /\ menu_sizes[Len(nav)] >= 3) =>
        /\ downs < menu_sizes[Len(nav)] - 1 =>
             nav[Len(nav)].scroll + nav[Len(nav)].cursor = downs
        /\ downs >= menu_sizes[Len(nav)] - 1 =>
             /\ nav[Len(nav)].scroll = menu_sizes[Len(nav)] - 2
             /\ nav[Len(nav)].cursor = 1

\* Two move-downs more than a menu of three needs to reach its bottom.
C12_Witness ==
    /\ Len(nav) = 1
    /\ menu_sizes[1] = 3
    /\ downs = 4
    /\ nav[1] = [scroll |-> 1, cursor |-> 1]

(* C13: no step changes the scroll or the cursor of an activation that is  *)
(* not the innermost one: a parent has, while its submenu runs and when it *)
(* returns, the values it had when it activated the submenu.               *)
C13_ParentSessionIntact ==
    [][\A d \in 1 .. Len(nav) :
          /\ (d < Len(nav) /\ d <= Len(nav')) => nav'[d] = nav[d]
          /\ Len(nav') > Len(nav) => nav'[d] = nav[d]]_vars

\* A submenu of a scrolled parent has been navigated.
C13_Witness ==
    /\ Len(nav) = 2
    /\ nav[1] = [scroll |-> 2, cursor |-> 1]
    /\ nav[2] = [scroll |-> 0, cursor |-> 1]

-----------------------------------------------------------------------------
(* The lookup claims speak of the call that has returned. *)

HasReturned == lk_pc # "idle"
Sid == strip(lk_student_id)
FileLines == lk_file.lines
FirstLineFields == {strip(FileLines[1][i]) : i \in 1 .. Len(FileLines[1])}

\* The numbers of the lines of the file whose given column, stripped, is the
\* requested ID, among the lines from number `from` on.
LinesWithId(from, col) ==
    {n \in from .. Len(FileLines) :
        col <= Len(FileLines[n]) /\ strip(FileLines[n][col]) = Sid}

\* The data rows with the requested ID, as the call saw the file.
HeaderSeen == FileLines # <<>> /\ uses_header(split_line(FileLines[1]), lk_id_column)
DataRowsWithId ==
    IF FileLines = <<>> THEN {}
    ELSE IF HeaderSeen
    THEN LinesWithId(2, index(split_line(FileLines[1]), lk_id_column))
    ELSE LinesWithId(1, 1)

\* C14: lookup_student returns the first data row, in file order, whose ID
\* column equals the requested ID, never a later row with the same ID, and
\* returns None when no data row has that ID.
C14_FirstMatchWins ==
    HasReturned =>
        IF DataRowsWithId = {}
        THEN lk_result = None
        ELSE /\ lk_result.line \in DataRowsWithId
             /\ \A n \in DataRowsWithId : lk_result.line <= n
             /\ lk_result.kind = "tuple" =>
                    lk_result.tuple = split_line(FileLines[lk_result.line])
             /\ lk_result.kind = "dict" =>
                    lk_result = DictRow(split_line(FileLines[1]),
                                        split_line(FileLines[lk_result.line]),
                                        lk_result.line)

\* Two rows carry the requested ID with different fields and the first of
\* them came back.
C14_Witness ==
    /\ HasReturned
    /\ FileLines = << <<"22222", "x", "1", "late">>, <<" 11111 ", "4">>,
                      <<"11111", "2", "3">> >>
    /\ lk_student_id = "11111"
    /\ lk_result = TupleRow(<<"11111", "4">>, 2)

\* The place of the expected ID-column name among the fields of the first line.
IdColumnPlace ==
    CHOOSE i \in 1 .. Len(FileLines[1]) :
        /\ strip(FileLines[1][i]) = lk_id_column
        /\ \A j \in 1 .. i - 1 : strip(FileLines[1][j]) # lk_id_column

\* C15: the first line is a header, never returned as a match, if and only
\* if one of its fields equals the expected ID-column name; otherwise every
\* line, the first included, is a data row and the ID is matched against the
\* first column.
C15_HeaderIffNamed ==
    (HasReturned /\ FileLines # <<>>) =>
        IF lk_id_column \in FirstLineFields
        THEN IF LinesWithId(2, IdColumnPlace) = {}
             THEN lk_result = None
             ELSE /\ lk_result.kind = "dict"
                  /\ lk_result.line \in LinesWithId(2, IdColumnPlace)
                  /\ lk_result.line # 1
                  /\ DOMAIN lk_result.dict = FirstLineFields
        ELSE IF LinesWithId(1, 1) = {}
             THEN lk_result = None
             ELSE /\ lk_result.kind = "tuple"
                  /\ lk_result.line \in LinesWithId(1, 1)
                  /\ lk_result.tuple[1] = Sid

\* A header naming the ID column in second place: the row came back as a
\* dict, found by its second field.
C15_Witness ==
    /\ HasReturned
    /\ FileLines = << <<"log", "STUDENT_PIN">>, <<"11111", "2", "3">>,
                      <<"2", "11111">> >>
    /\ lk_student_id = "11111"
    /\ lk_id_column = "STUDENT_PIN"
    /\ lk_result.kind = "dict"
    /\ lk_result.line = 3
    /\ lk_result.dict["STUDENT_PIN"] = "11111"
    /\ lk_result.dict["log"] = "2"

\* C16: with the default arguments, on a file whose first line is the header
\* the generator writes (PIN, A, B, log), the header is detected: the header
\* line is never returned as a match, and a PIN that is present comes back
\* as a dict keyed by the header names.
C16_DefaultReadsGeneratedFile ==
    ( /\ HasReturned
      /\ lk_id_column = DEFAULT_ID_COLUMN
      /\ FileLines # <<>>
      /\ FileLines[1] = GENERATED_HEADER ) =>
        /\ lk_result.line # 1
        /\ LinesWithId(2, 1) # {} =>
              /\ lk_result.kind = "dict"
              /\ DOMAIN lk_result.dict = {"PIN", "A", "B", "log"}

\* What the call returns for an ID that no row of a readable file carries.
NotFoundResult ==
    lookup_student([readable |-> TRUE, lines |-> << <<"">> >>],
                   lk_student_id, lk_id_column)

\* C17: a file that cannot be read yields an outcome the caller can tell
\* apart from the not-found outcome of an ID absent from a readable file.
C17_DataErrorDistinct ==
    (HasReturned /\ ~lk_file.readable) => lk_result # NotFoundResult

\* The decimal texts of the block numbers.
BlockText == <<"1", "2", "3", "4">>

\* The text recorded for the found ID under the current day letter: the
\* column the header names A or B, or the second or third column of a file
\* without a header; "" when the row has no such field.
FoundRow == FileLines[lk_result.line]
RecordedMaxBlock ==
    LET names == IF lk_result.kind = "dict" THEN FileLines[1]
                 ELSE <<"", "A", "B">>
        places == {i \in 1 .. Len(names) : strip(names[i]) = lk_day}
        place == CHOOSE i \in places : \A j \in places : j <= i
    IN  IF places = {} \/ place > Len(FoundRow) THEN ""
        ELSE strip(FoundRow[place])

\* C18: for an ID found in the allowlist the decision is Allowed if and only
\* if the max-block field of the current day letter is present, parses as an
\* integer and is at most the current block number; a missing or unparseable
\* field gives Denied.
C18_AllowedIffWithinBlock ==
    (lk_pc = "decided" /\ lk_result # None) =>
        /\ lk_decision \in {"Allowed", "Denied"}
        /\ lk_decision = "Allowed" <=>
              \E v \in Blocks : BlockText[v] = RecordedMaxBlock /\ v <= lk_block

\* An ID allowed from block 2 on an A day is decided on in block 2.
C18_Witness ==
    /\ lk_pc = "decided"
    /\ lk_result.kind = "dict"
    /\ "A" \in DOMAIN lk_result.dict
    /\ lk_result.dict["A"] = "2"
    /\ lk_day = "A"
    /\ lk_block = 2
    /\ lk_decision = "Allowed"

-----------------------------------------------------------------------------
(* C20: the step that handles "-" leaves the buffer empty whatever it held *)
(* (so also when it was already empty) and redraws the number input line   *)
(* as "_____".                                                             *)
C20_CancelEmptiesBuffer ==
    [][LabelPressed("-") =>
         /\ number_buffer' = <<>>
         /\ number_input_text' = "_____"
         /\ \E i \in 1 .. Len(emitted') :
              emitted'[i] = send_display_event("number_input", "_____")]_vars

\* "-" has just been handled.
C20_Witness ==
    /\ pc = "scanning"
    /\ emitted = << send_event_key("press", "-", 2),
                    send_display_event("key_display", "-"),
                    send_display_event("number_input", "_____"),
                    send_display_event("status", "Cleared") >>
    /\ number_buffer = <<>>
    /\ number_input_text = "_____"
    /\ status_text = "Cleared"

-----------------------------------------------------------------------------
(* C19: once the host has processed, in order, every line the device has   *)
(* printed so far, its number_text, title_text, key_text and status_text   *)
(* are the texts of the device's number input, title, key display and      *)
(* status labels.                                                          *)
C19_HostMirrorsDevice ==
    wire = <<>> =>
        /\ state.number_text = number_input_text
        /\ state.title_text = title_text
        /\ state.key_text = key_display_text
        /\ state.status_text = status_text

\* "11" was entered and the host has caught up with the device.
C19_Witness ==
    /\ wire = <<>>
    /\ status_text = "Entered 11"
    /\ key_display_text = "Enter"
    /\ state.status_text = "Entered 11"
    /\ state.key_text = "Enter"
    /\ state.number_text = "_____"
    /\ state.extras = [k \in {"last_key", "last_number"} |->
                          IF k = "last_key" THEN "Enter:press" ELSE "entered:11"]

-----------------------------------------------------------------------------
(* The host claims speak of the step in which the host processes a line. *)

HostReads == wire # <<>> /\ wire' = Tail(wire)
LineRead == Head(wire)
LayoutFields(st) ==
    <<st.display_width, st.display_height, st.rotation, st.background_color,
      st.accent_color, st.text_color, st.highlight_color>>

\* C21: process_event on a line that is not valid JSON sets the status text
\* to "Host: bad data", returns False and leaves every other field of the
\* DisplayState as it was.
C21_BadDataOnlySetsStatus ==
    [][(HostReads /\ ~LineRead.json) =>
         /\ state'.status_text = "Host: bad data"
         /\ layout_changed' = FALSE
         /\ \A f \in DOMAIN state \ {"status_text"} : state'[f] = state[f]]_vars

\* A line that is not JSON has met a state that had left its defaults.
C21_Witness ==
    /\ wire = <<>>
    /\ state.status_text = "Host: bad data"
    /\ state.number_text = "1____"
    /\ state.display_width = 240
    /\ state.background_color = <<0, 0, 255>>
    /\ DOMAIN state.extras = {"help", "last_key"}
    /\ layout_changed = FALSE

\* C22, as stated: process_event returns True if and only if the event is a
\* layout event whose width or height differs from the state's current
\* display_width or display_height; events of the other types return False
\* and never change the layout fields.
C22_ResizeIffDimensionsDiffer ==
    [][(HostReads /\ LineRead.json) =>
         LET event == LineRead.object
             is_layout == has(event, "type") /\ event.type = "layout"
         IN  /\ layout_changed' <=>
                   /\ is_layout
                   /\ \/ has(event, "width") /\ event.width # state.display_width
                      \/ has(event, "height") /\ event.height # state.display_height
             /\ ~is_layout => LayoutFields(state') = LayoutFields(state)]_vars

\* C22, as the code has it: a width or height of 0 counts as not given.
C22_ResizeIffGivenDimensionsDiffer ==
    [][(HostReads /\ LineRead.json) =>
         LET event == LineRead.object
             is_layout == has(event, "type") /\ event.type = "layout"
             given(name) == has(event, name) /\ event[name] # 0
         IN  /\ layout_changed' <=>
                   /\ is_layout
                   /\ \/ given("width") /\ event.width # state.display_width
                      \/ given("height") /\ event.height # state.display_height
             /\ ~is_layout => LayoutFields(state') = LayoutFields(state)]_vars

\* A layout event has just changed the size of the display.
C22_Witness ==
    /\ wire = <<>>
    /\ layout_changed = TRUE
    /\ state.display_width = 240
    /\ state.display_height = 135

-----------------------------------------------------------------------------
(* C26: after RGB1602(col, row) the recorded line count is row, and the    *)
(* 2-line function flag is set if and only if row > 1.                     *)
C26_LinesAreRows ==
    lcd_pc = "constructed" =>
        /\ lcd.numlines = lcd.row
        /\ bit(lcd.showfunction, 3) = 1 <=> lcd.row > 1

-----------------------------------------------------------------------------
\* The underscores that follow a buffer of 0 .. 5 labels on the number input line.
Underscores == <<"_____", "____", "___", "__", "_", "">>

(* C23: after every completed scan the number input line is 5 characters  *)
(* long and reads the buffer contents followed by "_" padding.             *)
C23_LineShowsBuffer ==
    pc = "idle" =>
        /\ Len(number_input_text) = 5
        /\ Len(number_buffer) <= 5
        /\ number_input_text =
              join(number_buffer) \o Underscores[Min(Len(number_buffer), 5) + 1]

\* A scan has ended with two labels in the buffer.
C23_Witness ==
    /\ pc = "idle"
    /\ number_buffer = <<"1", ".">>
    /\ number_input_text = "1.___"

(* C24: the buffer changes only in a step that handles the press of a     *)
(* digit, ".", Enter or "-": the press of any other key and every release  *)
(* leave it as it was.                                                     *)
C24_OnlyEntryKeysChangeBuffer ==
    [][/\ number_buffer' # number_buffer =>
            \E key \in PressHandled :
                LabelOf(key) \in DigitLabels \cup {".", "Enter", "-"}
       /\ (LabelPressed("Num Lock") \/ LabelPressed("*")) =>
            number_buffer' = number_buffer
       /\ ReleaseHandled # {} => number_buffer' = number_buffer]_vars

\* Num Lock has just been pressed over a buffer that holds a label.
C24_Witness ==
    /\ pc = "scanning"
    /\ status_text = "Pressed Num Lock"
    /\ emitted = << send_event_key("press", "Num Lock", 0),
                    send_display_event("key_display", "Num Lock"),
                    send_display_event("status", "Pressed Num Lock") >>
    /\ number_buffer = <<"1", "1">>

-----------------------------------------------------------------------------
(* What a scan can come to, over the orders in which the loops of          *)
(* scan_keys may visit the keys of a set.                                  *)

RECURSIVE PressOutcomes(_, _)
PressOutcomes(keys, s) ==
    IF keys = {} THEN {s}
    ELSE UNION {PressOutcomes(keys \ {key}, PressKey(key, s)) : key \in keys}

RECURSIVE ReleaseOutcomes(_, _)
ReleaseOutcomes(keys, s) ==
    IF keys = {} THEN {s}
    ELSE UNION {ReleaseOutcomes(keys \ {key}, ReleaseKey(key, s)) : key \in keys}

ScanOutcomes ==
    UNION {ReleaseOutcomes(newly_released, s) : s \in PressOutcomes(newly_pressed, Now)}

\* C25: the buffer, the status text and the events a scan ends with are
\* determined by the buffer before the scan, the set pressed before and the
\* set read, also when several keys become pressed in the same scan.
C25_ScanIsDeterministic ==
    (pc = "scanning" /\ emitted = <<>>) =>
        Cardinality({<<s.buffer, s.status, s.events>> : s \in ScanOutcomes}) = 1
====
